---- MODULE Spec2Model ----
(***************************************************************************)
(* Model of the ClaimPilot extraction back end:                            *)
(*   - ocr_service.py        : extract_text_from_pdf and its stdin entry   *)
(*   - docstrange_service.py : extract_with_docstrange and its CLI main    *)
(*   - docstrange_server.py  : the Flask handler of POST /extract          *)
(* One behaviour is one run of one entry point (prog), chosen in Init      *)
(* together with that run's inputs.  Calls into external libraries         *)
(* (PyMuPDF, OpenCV, Tesseract, DocStrange, the file system) either        *)
(* succeed or raise; which one is the environment's choice.                *)
(***************************************************************************)
EXTENDS Integers, Sequences, FiniteSets, TLC

VARIABLES
    prog,            \* entry point of this run: "ocr", "http" or "cli"
    pc,              \* position of the run in its code
    \* ---- ocr_service.py
    b64_ok,          \* base64.b64decode(input_data) succeeds
    arg,             \* argument of the running extract_text_from_pdf call: "bytes" / "path" / "none"
    doc,             \* pages of the opened document (what each page shows)
    doc_open,        \* the handle opened by the current call is still open
    i,               \* loop index of the page being processed (0-based)
    all_pages_text,  \* list of per-page OCR text
    full_text,       \* value returned by extract_text_from_pdf
    exc,             \* exception in flight / caught ("None" if none)
    errors,          \* history: exceptions raised by extract_text_from_pdf in this run
    calls,           \* history: number of extract_text_from_pdf invocations
    \* ---- process boundary
    stdout,          \* objects printed to standard output
    stderr,          \* objects printed to standard error
    exit_code,       \* process exit status, -1 while running
    \* ---- docstrange_server.py
    has_file,        \* "file" in request.files
    filename,        \* file.filename
    caller_key,      \* credential supplied by the caller: form apiKey / argv[2]; "None" if absent
    tmp_path,        \* local tmp_path of extract()
    disk,            \* temporary files of this request present on disk
    response,        \* HTTP response (status, body); status 0 while unanswered
    \* ---- docstrange_service.py
    argc,            \* len(sys.argv)
    file_exists,     \* os.path.exists(pdf_path)
    api_key,         \* api_key parameter of extract_with_docstrange
    api_key_to_use,  \* credential handed to DocumentExtractor
    csv_data,        \* CSV returned by the backend
    result           \* record returned by extract_with_docstrange

vars == << prog, pc, b64_ok, arg, doc, doc_open, i, all_pages_text, full_text,
           exc, errors, calls, stdout, stderr, exit_code, has_file, filename,
           caller_key, tmp_path, disk, response, argc, file_exists, api_key,
           api_key_to_use, csv_data, result >>

ocrVars  == << b64_ok, arg, doc, doc_open, i, all_pages_text, full_text, errors, calls >>
httpVars == << has_file, filename, tmp_path, disk, response >>
svcVars  == << api_key, api_key_to_use, csv_data, result >>
ioVars   == << stdout, stderr, exit_code >>

----------------------------------------------------------------------------
(* Bounds *)

MaxPages == 3        \* longest document explored

----------------------------------------------------------------------------
(* Text.  A string is a sequence of characters. *)

NL == "\n"

\* "--- PAGE BREAK ---"
MARKER == << "-", "-", "-", " ", "P", "A", "G", "E", " ",
             "B", "R", "E", "A", "K", " ", "-", "-", "-" >>

\* "\n\n--- PAGE BREAK ---\n\n"
PAGE_BREAK == << NL, NL >> \o MARKER \o << NL, NL >>

\* str.join: the elements of list with sep between consecutive ones
RECURSIVE JoinTrailing(_, _)
JoinTrailing(sep, list) ==
    IF list = << >> THEN << >>
    ELSE Head(list) \o sep \o JoinTrailing(sep, Tail(list))

RECURSIVE Join(_, _)
Join(sep, list) ==
    IF list = << >> THEN << >>
    ELSE IF Len(list) = 1 THEN list[1]
    ELSE Head(list) \o sep \o Join(sep, Tail(list))

\* What a page shows, and the text Tesseract reads from it
PageKinds == { "blank", "a", "b", "marker" }

OcrText(k) ==
    CASE k = "blank"  -> << >>
      [] k = "a"      -> << "a", NL >>
      [] k = "b"      -> << "-", "b" >>
      [] k = "marker" -> MARKER

Docs == UNION { [1..n -> PageKinds] : n \in 0..MaxPages }

\* list.append (PrependText: a faulty variant that inserts at the front)
PrependText(list, text) == << text >> \o list

AppendText(list, text) == Append(list, text)

----------------------------------------------------------------------------
(* Credentials and result records *)

None == "None"

OTHER_API_KEY == "00000000-0000-0000-0000-000000000000"

\* docstrange_server.py: literal of the `or` fallback
SERVER_DEFAULT_API_KEY == "a830e6de-e258-11f0-bf19-a23842209c4a"

\* docstrange_service.py: default_api_key
default_api_key == "a830e6de-e258-11f0-bf19-a23842209c4a"

\* Python truthiness of an optional string
Falsy(s) == s = None \/ s = ""

SuppliedKeys == { None, "", "k1", "k2" }

\* request.form.get("apiKey") or <literal>
FormApiKey(form) == IF Falsy(form) THEN SERVER_DEFAULT_API_KEY ELSE form

\* api_key if api_key else default_api_key
ApiKeyToUse(key) == IF Falsy(key) THEN default_api_key ELSE key

\* the two return statements of extract_with_docstrange
SuccessResult(csv) == [ success |-> TRUE, csv_data |-> csv, error |-> None ]

SilentFailureResult(e) == [ success |-> FALSE, csv_data |-> None, error |-> None ]

FailureResult(e) == [ success |-> FALSE, csv_data |-> None, error |-> e ]

\* sys.exit(0 if result["success"] else 1)
AlwaysZero(r) == 0

ExitStatus(r) == IF r.success THEN 0 ELSE 1

BackendCsv == { "csv1", "csv2" }
BackendErrors == { "ctor failed", "extract failed", "extract_csv failed" }

NoResponse == [ status |-> 0, body |-> None ]
NoResult == [ success |-> FALSE, csv_data |-> None, error |-> "unset" ]

----------------------------------------------------------------------------
(* Initial states: one entry point and its inputs *)

InitCommon ==
    /\ arg = "none" /\ doc = << >> /\ doc_open = FALSE /\ i = 0
    /\ all_pages_text = << >> /\ full_text = << >>
    /\ exc = None /\ errors = << >> /\ calls = 0
    /\ stdout = << >> /\ stderr = << >> /\ exit_code = -1
    /\ tmp_path = None /\ disk = { } /\ response = NoResponse
    /\ api_key = None /\ api_key_to_use = "unset" /\ csv_data = None
    /\ result = NoResult

InitOcr ==
    /\ prog = "ocr" /\ pc = "main"
    /\ b64_ok \in BOOLEAN
    /\ has_file = FALSE /\ filename = "" /\ caller_key = None
    /\ argc = 0 /\ file_exists = FALSE

InitHttp ==
    /\ prog = "http" /\ pc = "h_start"
    /\ has_file \in BOOLEAN
    /\ filename \in IF has_file THEN { "", "s.pdf" } ELSE { "" }
    /\ caller_key \in SuppliedKeys
    /\ b64_ok = FALSE /\ argc = 0 /\ file_exists = FALSE

InitCli ==
    /\ prog = "cli" /\ pc = "c_start"
    /\ argc \in 1..3
    /\ caller_key \in IF argc > 2 THEN SuppliedKeys \ { None } ELSE { None }
    /\ file_exists \in IF argc > 1 THEN BOOLEAN ELSE { FALSE }
    /\ b64_ok = FALSE /\ has_file = FALSE /\ filename = ""

Init == InitCommon /\ (InitOcr \/ InitHttp \/ InitCli)

----------------------------------------------------------------------------
(* ocr_service.py: extract_text_from_pdf *)

\* where the for loop goes once idx pages of d are done
LoopPc(idx, d) == IF idx < Len(d) THEN "render" ELSE "close"

\* entry of extract_text_from_pdf(a): fresh locals
StartCall(a) ==
    /\ arg' = a
    /\ calls' = calls + 1
    /\ doc' = << >> /\ doc_open' = FALSE /\ i' = 0 /\ all_pages_text' = << >>
    /\ pc' = "open"

\* an exception leaves extract_text_from_pdf; nothing on the way closes doc
Raise(e) ==
    /\ exc' = e
    /\ errors' = Append(errors, e)
    /\ pc' = "raised"
    /\ UNCHANGED << prog, b64_ok, arg, doc, doc_open, i, all_pages_text, full_text,
                    calls, ioVars, httpVars, svcVars, caller_key, argc, file_exists >>

\* fitz.open(...) succeeds
Open ==
    /\ prog = "ocr" /\ pc = "open"
    /\ \E d \in Docs :
          /\ doc' = d
          /\ pc' = LoopPc(0, d)
    /\ doc_open' = TRUE
    /\ i' = 0
    /\ all_pages_text' = << >>
    /\ UNCHANGED << prog, b64_ok, arg, full_text, exc, errors, calls, ioVars,
                    httpVars, svcVars, caller_key, argc, file_exists >>

\* fitz.open(...) raises: not a PDF, no such file
OpenFail ==
    /\ prog = "ocr" /\ pc = "open"
    /\ Raise("DocumentOpenError")

\* page = doc[i]; pix = page.get_pixmap(...)
Render ==
    /\ prog = "ocr" /\ pc = "render"
    /\ pc' = "preprocess"
    /\ UNCHANGED << prog, ocrVars, exc, ioVars, httpVars, svcVars, caller_key,
                    argc, file_exists >>

RenderFail ==
    /\ prog = "ocr" /\ pc = "render"
    /\ Raise("RenderError")

\* np.frombuffer(...).reshape(...), cv2.cvtColor, preprocess(img_bgr)
Preprocess ==
    /\ prog = "ocr" /\ pc = "preprocess"
    /\ pc' = "ocr"
    /\ UNCHANGED << prog, ocrVars, exc, ioVars, httpVars, svcVars, caller_key,
                    argc, file_exists >>

PreprocessFail ==
    /\ prog = "ocr" /\ pc = "preprocess"
    /\ Raise("InvalidImageError")

\* text = pytesseract.image_to_string(...); all_pages_text.append(text)
Ocr ==
    /\ prog = "ocr" /\ pc = "ocr"
    /\ all_pages_text' = AppendText(all_pages_text, OcrText(doc[i + 1]))
    /\ i' = i + 1
    /\ pc' = LoopPc(i + 1, doc)
    /\ UNCHANGED << prog, b64_ok, arg, doc, doc_open, full_text, exc, errors, calls,
                    ioVars, httpVars, svcVars, caller_key, argc, file_exists >>

OcrFail ==
    /\ prog = "ocr" /\ pc = "ocr"
    /\ Raise("OcrEngineError")

\* doc.close(); full_text = "...".join(all_pages_text); return full_text
CloseAndJoin ==
    /\ prog = "ocr" /\ pc = "close"
    /\ doc_open' = FALSE
    /\ full_text' = Join(PAGE_BREAK, all_pages_text)
    /\ pc' = "returned"
    /\ UNCHANGED << prog, b64_ok, arg, doc, i, all_pages_text, exc, errors, calls,
                    ioVars, httpVars, svcVars, caller_key, argc, file_exists >>

----------------------------------------------------------------------------
(* ocr_service.py: the stdin entry point *)

\* pdf_bytes = base64.b64decode(input_data); extract_text_from_pdf(pdf_bytes)
B64Decode ==
    /\ prog = "ocr" /\ pc = "main" /\ b64_ok
    /\ StartCall("bytes")
    /\ UNCHANGED << prog, b64_ok, full_text, exc, errors, ioVars, httpVars, svcVars,
                    caller_key, argc, file_exists >>

\* b64decode raises; the bare except calls extract_text_from_pdf(input_data)
B64DecodeFail ==
    /\ prog = "ocr" /\ pc = "main" /\ ~b64_ok
    /\ exc' = "binascii.Error"
    /\ StartCall("path")
    /\ UNCHANGED << prog, b64_ok, full_text, errors, ioVars, httpVars, svcVars,
                    caller_key, argc, file_exists >>

\* the bare except also catches what extract_text_from_pdf(pdf_bytes) raised
InnerExcept ==
    /\ prog = "ocr" /\ pc = "raised" /\ arg = "bytes"
    /\ StartCall("path")
    /\ UNCHANGED << prog, b64_ok, full_text, exc, errors, ioVars, httpVars, svcVars,
                    caller_key, argc, file_exists >>

\* result = {success: True, ...}; print(json.dumps(result)); normal exit
PrintResult ==
    /\ prog = "ocr" /\ pc = "returned"
    /\ stdout' = Append(stdout, [ success |-> TRUE, text |-> full_text,
                                  length |-> Len(full_text) ])
    /\ exit_code' = 0
    /\ pc' = "done"
    /\ UNCHANGED << prog, ocrVars, exc, stderr, httpVars, svcVars, caller_key,
                    argc, file_exists >>

\* faulty variant of OuterExcept that omits sys.exit(1)
OuterExceptExitZero ==
    /\ prog = "ocr" /\ pc = "raised" /\ arg = "path"
    /\ stdout' = Append(stdout, [ success |-> FALSE, error |-> exc,
                                  text |-> << >>, length |-> 0 ])
    /\ exit_code' = 0
    /\ pc' = "done"
    /\ UNCHANGED << prog, ocrVars, exc, stderr, httpVars, svcVars, caller_key,
                    argc, file_exists >>

\* except Exception as e: print the failure record; sys.exit(1)
OuterExcept ==
    /\ prog = "ocr" /\ pc = "raised" /\ arg = "path"
    /\ stdout' = Append(stdout, [ success |-> FALSE, error |-> exc,
                                  text |-> << >>, length |-> 0 ])
    /\ exit_code' = 1
    /\ pc' = "done"
    /\ UNCHANGED << prog, ocrVars, exc, stderr, httpVars, svcVars, caller_key,
                    argc, file_exists >>

----------------------------------------------------------------------------
(* docstrange_service.py: extract_with_docstrange, called by both the HTTP *)
(* handler and the CLI main.  Its whole body is inside try/except.         *)

\* an exception inside the try block: control goes to `except Exception as e`
SvcRaise(e) ==
    /\ exc' = e
    /\ pc' = "svc_except"

\* api_key_to_use = ...; extractor = DocumentExtractor(api_key=api_key_to_use)
SvcCtor ==
    /\ pc = "svc_ctor"
    /\ api_key_to_use' = ApiKeyToUse(api_key)
    /\ pc' = "svc_extract"
    /\ UNCHANGED << prog, ocrVars, exc, ioVars, httpVars, api_key, csv_data, result,
                    caller_key, argc, file_exists >>

SvcCtorFail ==
    /\ pc = "svc_ctor"
    /\ api_key_to_use' = ApiKeyToUse(api_key)
    /\ SvcRaise("ctor failed")
    /\ UNCHANGED << prog, ocrVars, ioVars, httpVars, api_key, csv_data, result,
                    caller_key, argc, file_exists >>

\* result = extractor.extract(pdf_path)
SvcExtract ==
    /\ pc = "svc_extract"
    /\ pc' = "svc_csv"
    /\ UNCHANGED << prog, ocrVars, exc, ioVars, httpVars, svcVars, caller_key,
                    argc, file_exists >>

SvcExtractFail ==
    /\ pc = "svc_extract"
    /\ SvcRaise("extract failed")
    /\ UNCHANGED << prog, ocrVars, ioVars, httpVars, svcVars, caller_key,
                    argc, file_exists >>

\* csv_data = result.extract_csv(); return {success: True, ...}
SvcCsv ==
    /\ pc = "svc_csv"
    /\ \E csv \in BackendCsv :
          /\ csv_data' = csv
          /\ result' = SuccessResult(csv)
    /\ pc' = "svc_return"
    /\ UNCHANGED << prog, ocrVars, exc, ioVars, httpVars, api_key, api_key_to_use,
                    caller_key, argc, file_exists >>

SvcCsvFail ==
    /\ pc = "svc_csv"
    /\ SvcRaise("extract_csv failed")
    /\ UNCHANGED << prog, ocrVars, ioVars, httpVars, svcVars, caller_key,
                    argc, file_exists >>

\* except Exception as e: return {success: False, csv_data: None, error: str(e)}
SvcExcept ==
    /\ pc = "svc_except"
    /\ result' = FailureResult(exc)
    /\ pc' = "svc_return"
    /\ UNCHANGED << prog, ocrVars, exc, ioVars, httpVars, api_key, api_key_to_use,
                    csv_data, caller_key, argc, file_exists >>

----------------------------------------------------------------------------
(* docstrange_service.py: main *)

\* len(sys.argv) < 2: usage error to stderr, sys.exit(1)
CliUsage ==
    /\ prog = "cli" /\ pc = "c_start" /\ argc < 2
    /\ stderr' = Append(stderr, [ error |-> "Usage", success |-> FALSE ])
    /\ exit_code' = 1
    /\ pc' = "done"
    /\ UNCHANGED << prog, ocrVars, exc, stdout, httpVars, svcVars, caller_key,
                    argc, file_exists >>

\* not os.path.exists(pdf_path): error to stderr, sys.exit(1)
CliNotFound ==
    /\ prog = "cli" /\ pc = "c_start" /\ argc >= 2 /\ ~file_exists
    /\ stderr' = Append(stderr, [ error |-> "File not found", success |-> FALSE ])
    /\ exit_code' = 1
    /\ pc' = "done"
    /\ UNCHANGED << prog, ocrVars, exc, stdout, httpVars, svcVars, caller_key,
                    argc, file_exists >>

\* api_key = sys.argv[2] if len(sys.argv) > 2 else None; extract_with_docstrange(...)
CliCall ==
    /\ prog = "cli" /\ pc = "c_start" /\ argc >= 2 /\ file_exists
    /\ api_key' = IF argc > 2 THEN caller_key ELSE None
    /\ pc' = "svc_ctor"
    /\ UNCHANGED << prog, ocrVars, exc, ioVars, httpVars, api_key_to_use, csv_data,
                    result, caller_key, argc, file_exists >>

\* print(json.dumps(result)); sys.exit(0 if result["success"] else 1)
CliPrint ==
    /\ prog = "cli" /\ pc = "svc_return"
    /\ stdout' = Append(stdout, result)
    /\ exit_code' = ExitStatus(result)
    /\ pc' = "done"
    /\ UNCHANGED << prog, ocrVars, exc, stderr, httpVars, svcVars, caller_key,
                    argc, file_exists >>

----------------------------------------------------------------------------
(* docstrange_server.py: extract, the handler of POST /extract *)

TMP_NAME == "tmp1.pdf"

ErrorBody(e) == [ error |-> e, success |-> FALSE ]

\* "file" not in request.files
HttpNoFile ==
    /\ prog = "http" /\ pc = "h_start" /\ ~has_file
    /\ response' = [ status |-> 400, body |-> ErrorBody("No file provided") ]
    /\ pc' = "done"
    /\ UNCHANGED << prog, ocrVars, exc, ioVars, has_file, filename, tmp_path, disk,
                    svcVars, caller_key, argc, file_exists >>

\* file.filename == ""
HttpNoFilename ==
    /\ prog = "http" /\ pc = "h_start" /\ has_file /\ filename = ""
    /\ api_key' = FormApiKey(caller_key)
    /\ response' = [ status |-> 400, body |-> ErrorBody("No file selected") ]
    /\ pc' = "done"
    /\ UNCHANGED << prog, ocrVars, exc, ioVars, has_file, filename, tmp_path, disk,
                    api_key_to_use, csv_data, result, caller_key, argc, file_exists >>

\* the request passes both checks; api_key = form apiKey or the literal
HttpAccept ==
    /\ prog = "http" /\ pc = "h_start" /\ has_file /\ filename # ""
    /\ api_key' = FormApiKey(caller_key)
    /\ pc' = "h_tmp"
    /\ UNCHANGED << prog, ocrVars, exc, ioVars, httpVars, api_key_to_use, csv_data,
                    result, caller_key, argc, file_exists >>

\* tempfile.NamedTemporaryFile(delete=False, suffix=".pdf") creates the file
HttpCreateTemp ==
    /\ prog = "http" /\ pc = "h_tmp"
    /\ disk' = disk \cup { TMP_NAME }
    /\ pc' = "h_save"
    /\ UNCHANGED << prog, ocrVars, exc, ioVars, has_file, filename, tmp_path,
                    response, svcVars, caller_key, argc, file_exists >>

\* NamedTemporaryFile raises: nothing was created
HttpCreateTempFail ==
    /\ prog = "http" /\ pc = "h_tmp"
    /\ exc' = "cannot create temp file"
    /\ pc' = "h_except"
    /\ UNCHANGED << prog, ocrVars, ioVars, httpVars, svcVars, caller_key,
                    argc, file_exists >>

\* file.save(tmp.name); tmp_path = tmp.name; then extract_with_docstrange(tmp_path, api_key)
HttpSave ==
    /\ prog = "http" /\ pc = "h_save"
    /\ tmp_path' = TMP_NAME
    /\ pc' = "svc_ctor"
    /\ UNCHANGED << prog, ocrVars, exc, ioVars, has_file, filename, disk, response,
                    svcVars, caller_key, argc, file_exists >>

\* file.save raises: the with block closes the file, tmp_path stays None
HttpSaveFail ==
    /\ prog = "http" /\ pc = "h_save"
    /\ exc' = "save failed"
    /\ pc' = "h_except"
    /\ UNCHANGED << prog, ocrVars, ioVars, httpVars, svcVars, caller_key,
                    argc, file_exists >>

\* return jsonify(result): status 200 whatever result says
HttpReturn ==
    /\ prog = "http" /\ pc = "svc_return"
    /\ response' = [ status |-> 200, body |-> result ]
    /\ pc' = "h_finally"
    /\ UNCHANGED << prog, ocrVars, exc, ioVars, has_file, filename, tmp_path, disk,
                    svcVars, caller_key, argc, file_exists >>

\* except Exception as e: return jsonify({error, success: False}), 500
HttpExcept ==
    /\ prog = "http" /\ pc = "h_except"
    /\ response' = [ status |-> 500, body |-> ErrorBody(exc) ]
    /\ pc' = "h_finally"
    /\ UNCHANGED << prog, ocrVars, exc, ioVars, has_file, filename, tmp_path, disk,
                    svcVars, caller_key, argc, file_exists >>

\* finally: if tmp_path and os.path.exists(tmp_path): os.unlink(tmp_path)
HttpFinally ==
    /\ prog = "http" /\ pc = "h_finally"
    /\ disk' = IF tmp_path # None /\ tmp_path \in disk THEN disk \ { tmp_path } ELSE disk
    /\ pc' = "done"
    /\ UNCHANGED << prog, ocrVars, exc, ioVars, has_file, filename, tmp_path,
                    response, svcVars, caller_key, argc, file_exists >>

----------------------------------------------------------------------------

Next ==
    \/ B64Decode \/ B64DecodeFail
    \/ Open \/ OpenFail
    \/ Render \/ RenderFail
    \/ Preprocess \/ PreprocessFail
    \/ Ocr \/ OcrFail
    \/ CloseAndJoin
    \/ InnerExcept \/ OuterExcept \/ PrintResult
    \/ SvcCtor \/ SvcCtorFail
    \/ SvcExtract \/ SvcExtractFail
    \/ SvcCsv \/ SvcCsvFail
    \/ SvcExcept
    \/ CliUsage \/ CliNotFound \/ CliCall \/ CliPrint
    \/ HttpNoFile \/ HttpNoFilename \/ HttpAccept
    \/ HttpCreateTemp \/ HttpCreateTempFail
    \/ HttpSave \/ HttpSaveFail
    \/ HttpReturn \/ HttpExcept \/ HttpFinally

Spec == Init /\ [][Next]_vars

TypeOK ==
    /\ prog \in { "ocr", "http", "cli" }
    /\ doc \in Docs
    /\ i \in 0..Len(doc)
    /\ Len(all_pages_text) <= Len(doc)
    /\ calls \in 0..2
    /\ exit_code \in { -1, 0, 1 }
    /\ response.status \in { 0, 200, 400, 500 }
    /\ disk \subseteq { TMP_NAME }

----------------------------------------------------------------------------
(* Helpers of the properties *)

\* positions at which m occurs in s
Occurrences(m, s) ==
    { p \in 1..(Len(s) - Len(m) + 1) : SubSeq(s, p, p + Len(m) - 1) = m }

\* the texts Tesseract reads from the pages of d, in page order
PageTexts(d) == [ j \in 1..Len(d) |-> OcrText(d[j]) ]

MarkerFree(d) == \A j \in 1..Len(d) : Occurrences(MARKER, OcrText(d[j])) = { }

\* number of characters of the aggregate before the text of page j
RECURSIVE PageOffset(_, _)
PageOffset(d, j) ==
    IF j = 1 THEN 0
    ELSE PageOffset(d, j - 1) + Len(OcrText(d[j - 1])) + Len(PAGE_BREAK)

InLoop == prog = "ocr" /\ pc \in { "render", "preprocess", "ocr" }

\* the run of the HTTP handler / the process is over
HttpDone == prog = "http" /\ pc = "done"
CliDone  == prog = "cli" /\ pc = "done"
OcrDone  == prog = "ocr" /\ pc = "done"

----------------------------------------------------------------------------
(* Properties *)

\* C1: once extract_text_from_pdf has opened the document, the handle is
\* closed when the call returns or raises, on every exit path.
C1_HandleClosedOnExit ==
    (prog = "ocr" /\ pc \in { "returned", "raised" }) => ~doc_open

\* C2: when a POST /extract request that reached the temp-file step has
\* completed, no temporary file of that request remains on disk.
C2_NoTempFileLeft ==
    HttpDone => disk = { }

\* C3: POST /extract answers 200 exactly when extraction succeeded, 400 when
\* the file part is missing or its filename is empty, and 500 whenever
\* extraction failed; a failure reported by extract_with_docstrange is never
\* answered with 200.
C3_StatusMatchesOutcome ==
    HttpDone =>
        /\ (response.status = 200) <=> response.body.success
        /\ (~has_file \/ filename = "") => response.status = 400
        /\ (has_file /\ filename # "" /\ ~response.body.success)
              => response.status = 500

C5_OneObjectOnStdout ==
    CliDone =>
        /\ Len(stdout) = 1
        /\ exit_code = IF result.success THEN 0 ELSE 1

\* C5 amended: an invocation that reaches extract_with_docstrange prints
\* exactly one JSON object (the result) to stdout and nothing to stderr; an
\* invocation with missing arguments or a non-existent path prints one JSON
\* error object to stderr and nothing to stdout; the exit code is 0 exactly
\* when a successful result was printed, and 1 otherwise.
C5_CliOutput ==
    CliDone =>
        /\ IF argc < 2 \/ ~file_exists
             THEN stdout = << >> /\ Len(stderr) = 1 /\ ~stderr[1].success
             ELSE stdout = << result >> /\ stderr = << >>
        /\ exit_code \in { 0, 1 }
        /\ (exit_code = 0) <=> (Len(stdout) = 1 /\ stdout[1].success)

C5_Witness ==
    CliDone /\ argc >= 2 /\ ~file_exists /\ stdout = << >> /\ exit_code = 1

\* C6: for a document of N pages whose page texts do not contain the marker,
\* the returned text has exactly N-1 markers, each between two blank lines;
\* for N = 1 it is that page's text, and for N = 0 it is the empty string.
C6_PageBreakCount ==
    (prog = "ocr" /\ pc = "returned" /\ MarkerFree(doc)) =>
        /\ Len(doc) >= 1 =>
              /\ Cardinality(Occurrences(MARKER, full_text)) = Len(doc) - 1
              /\ \A p \in Occurrences(MARKER, full_text) :
                    /\ p > 2
                    /\ SubSeq(full_text, p - 2, p - 1) = << NL, NL >>
                    /\ SubSeq(full_text, p + Len(MARKER), p + Len(MARKER) + 1)
                          = << NL, NL >>
        /\ Len(doc) = 1 => full_text = OcrText(doc[1])
        /\ Len(doc) = 0 => full_text = << >>

C6_Witness ==
    /\ prog = "ocr" /\ pc = "returned" /\ MarkerFree(doc)
    /\ Len(doc) = 3 /\ doc[2] = "blank"
    /\ Cardinality(Occurrences(MARKER, full_text)) = 2

\* C7: pages are processed one at a time in increasing index order (while
\* page i is in work exactly the texts of pages 0..i-1 have been appended, in
\* that order), and in the returned text page j's text stands at the offset
\* that follows the texts of all earlier pages.
C7_PageOrder ==
    /\ InLoop =>
          /\ i < Len(doc)
          /\ all_pages_text = SubSeq(PageTexts(doc), 1, i)
    /\ (prog = "ocr" /\ pc \in { "close", "returned" }) =>
          /\ i = Len(doc)
          /\ all_pages_text = PageTexts(doc)
    /\ (prog = "ocr" /\ pc = "returned") =>
          \A j \in 1..Len(doc) :
             /\ SubSeq(full_text, PageOffset(doc, j) + 1,
                       PageOffset(doc, j) + Len(OcrText(doc[j]))) = OcrText(doc[j])
             /\ j < Len(doc) =>
                   PageOffset(doc, j) + Len(OcrText(doc[j])) < PageOffset(doc, j + 1)

C7_Witness ==
    /\ prog = "ocr" /\ pc = "returned"
    /\ Len(doc) = 3 /\ doc[1] = "a" /\ doc[2] = "b" /\ doc[3] = "a"
    /\ i = 3

\* C8: an OCR engine failure on the stdin entry point is what the run reports,
\* and extract_text_from_pdf is not invoked again after it.
C8_OcrFailureNotRetried ==
    \A k \in 1..Len(errors) :
        errors[k] = "OcrEngineError" =>
            /\ calls = k
            /\ OcrDone => (~stdout[1].success /\ stdout[1].error = "OcrEngineError")

\* C9: on the HTTP and the CLI entry points the credential handed to the
\* backend is the caller's value when the caller supplied a non-empty one,
\* and the one fixed fallback value otherwise.
C9_Credential ==
    api_key_to_use # "unset" =>
        api_key_to_use = IF caller_key \in { None, "" }
                           THEN "a830e6de-e258-11f0-bf19-a23842209c4a"
                           ELSE caller_key

C9_Witness ==
    /\ prog = "http" /\ caller_key = "" /\ pc = "svc_extract"
    /\ api_key_to_use = "a830e6de-e258-11f0-bf19-a23842209c4a"

\* C10: extract_with_docstrange never raises to its caller; it returns a
\* record with exactly the fields success, csv_data and error, where success
\* implies error is null and csv_data is the backend's CSV, and failure
\* implies csv_data is null and error is the message of the exception.
C10_ResultShape ==
    /\ pc = "svc_return" =>
          /\ DOMAIN result = { "success", "csv_data", "error" }
          /\ result.success =>
                /\ result.error = None
                /\ result.csv_data = csv_data
                /\ csv_data \in BackendCsv
          /\ ~result.success =>
                /\ result.csv_data = None
                /\ result.error \in BackendErrors
                /\ result.error = exc
    /\ api_key_to_use # "unset" =>
          /\ pc \in { "svc_extract", "svc_csv", "svc_except", "svc_return",
                      "h_finally", "done" }
          /\ pc \in { "h_finally", "done" } => prog = "cli" \/ response.body = result

C10_Witness ==
    /\ pc = "svc_return" /\ ~result.success
    /\ result.error = "extract_csv failed" /\ result.csv_data = None

====
